---- MODULE Spec2Model ----
(***************************************************************************)
(* Cubik Builder: the undo/redo history (src/history.js) and the autosave  *)
(* module (src/autosave.js), modelled as state machines over the shared    *)
(* globals snapshotScene / restoreScene / scene owned by the application.  *)
(***************************************************************************)
EXTENDS Integers, Sequences, FiniteSets, TLC

\* ---------------------------------------------------------------------------
\* Bounds of the model
\* ---------------------------------------------------------------------------

\* history.js:15 sets the capacity to 600; the model runs the same code with
\* a small capacity so that eviction happens within the explored runs.
MAX_UNDO_STEPS == 3

\* largest number of objects in a scene snapshot array
MaxObjects == 1

\* longest run of consecutive successful pushState() calls that is recorded
MaxPushes == MAX_UNDO_STEPS + 2

\* ---------------------------------------------------------------------------
\* Snapshot values: what the external snapshotScene() may return.  The
\* contract is "opaque serializable value"; the application returns arrays,
\* and null stands for the falsy values.
\* ---------------------------------------------------------------------------

Null == [isNull |-> TRUE, objs |-> <<>>]

\* the snapshot array of a scene of k objects
ArrayOf(k) == [isNull |-> FALSE, objs |-> [i \in 1..k |-> 1]]

\* null, the empty scene and the scene of MaxObjects objects
Snapshots == {Null, ArrayOf(0), ArrayOf(MaxObjects)}

\* JavaScript truthiness of a snapshot value: null is falsy, every array
\* (the empty one included) is truthy.
Truthy(v) == ~v.isNull

VARIABLES
  \* --- application globals ---
  scene,              \* the scene in effect: what snapshotScene() would return
  snapshotAvail,      \* typeof window.snapshotScene === 'function'
  restoreAvail,       \* typeof window.restoreScene === 'function'
  sceneAvail,         \* window.scene && Array.isArray(window.objects)
  \* --- history.js state ---
  undoStack,
  redoStack,
  hasUnsavedChanges,
  \* --- observation of the last history call ---
  lastOp,             \* name of the last operation
  ret,                \* its return value: "true", "false" or "undefined"
  retIfOk,            \* what the same call returns when no callback throws
  raised,             \* TRUE iff an exception propagated to the caller
  restoreCalls,       \* snapshots handed to restoreScene during the call
  callbackThrew,      \* TRUE iff the external callback threw during the call
  pre,                \* stacks and flag as they were before the call
  prev,               \* name and return value of the call before the last
  pushLog,            \* snapshots captured by the current run of pushState()
  \* --- autosave.js state ---
  restored,
  pendingData,
  isDirty,
  lastHash,
  saveTimer,          \* TRUE iff the timer of the debounced save is pending
  localStorage,       \* the two items of the module, each a string or absent
  \* --- observation of the last autosave call ---
  autoOp,             \* the last call: name, readiness, content, setItem calls
  autoPrev,           \* the call before the last
  \* --- the browser's clock and timer queue ---
  now,                \* the time in milliseconds
  timers,             \* pending setTimeout timers: [id, due, cb]
  \* --- a function made by debounce(fn, ms) ---
  timer,              \* the closure variable: id of the last timer, 0 for null
  lastCall,           \* time of the last call of the debounced function
  burstCalls,         \* calls made since the wrapped function last ran
  firesSinceCall,     \* runs of the wrapped function since the last call
  invokedAt,          \* time of the last run of the wrapped function
  \* --- utils.js, the loader ---
  loaderElement,      \* whether the page has the loader element
  display,            \* the element's style.display: "", "flex" or "none"
  isStartupPhase,
  loaderStartTime,
  usedPlainHide,      \* hide() or hideImmediate() has been called
  hideRequested,      \* hideWithMinDuration() was called in this startup phase
  hideSinceShow,      \* a hide function was called after the last show()
  \* --- i18n.js ---
  currentLang,
  SUPPORTED,          \* the codes in the SUPPORTED array
  DICT,               \* the codes that have a dictionary
  query,              \* the value of the URL's lang parameter, NullCode if none
  langStored,         \* the localStorage entry 'cubik_lang'
  browserLang,        \* navigator.language || navigator.userLanguage
  i18nOp,             \* the last call: name, argument, result, what was read
  \* --- io.js and the globals it uses ---
  customKinds,        \* window.customKinds, as far as one custom kind goes
  baseGeom,           \* window.baseGeom, likewise
  faceGeoms,          \* window.faceGeoms, likewise
  loadAvail,          \* typeof window.loadSceneFromSnapshot === 'function'
  historyPresent,     \* window.CubikHistory is set
  ioOp,               \* the call of importJSON, when it is the last step
  \* --- the copy of the flag that history.js puts on window ---
  windowHasUnsavedChanges,
  \* --- the UI module: panels and keyboard shortcuts ---
  classList,          \* the panel classes on document.body
  uiOp,               \* the last UI call: name, key event, classes before it
  \* --- autosave.js, the handler of window's load event ---
  startTime,          \* Date.now() when the handler ran, NotLoaded before
  pollOp,             \* the last tick of the restore polling
  \* --- io.js, exportJSON ---
  download            \* the file offered for download: its text, and the
                      \* snapshot that was exported

histVars == <<undoStack, redoStack, hasUnsavedChanges, lastOp, ret, retIfOk,
              raised, restoreCalls, callbackThrew, pre, prev, pushLog>>

appVars == <<scene, snapshotAvail, restoreAvail, sceneAvail>>

autoVars == <<restored, pendingData, isDirty, lastHash, saveTimer,
              localStorage, autoOp, autoPrev>>

clockVars == <<now, timers>>

debounceVars == <<timer, lastCall, burstCalls, firesSinceCall, invokedAt>>

\* the variables of the modules other than the history and the autosave
loaderVars == <<loaderElement, display, isStartupPhase, loaderStartTime,
                usedPlainHide, hideRequested, hideSinceShow>>

i18nVars == <<currentLang, SUPPORTED, DICT, query, langStored, browserLang,
              i18nOp>>

ioVars == <<customKinds, baseGeom, faceGeoms, loadAvail, historyPresent>>

\* global.hasUnsavedChanges is assigned once, when history.js is loaded, and
\* by no function of the module afterwards
windowVars == <<windowHasUnsavedChanges>>

uiVars == <<classList, uiOp>>

pollVars == <<startTime, pollOp>>

restVars == <<clockVars, debounceVars, loaderVars, i18nVars, ioVars,
              windowVars, uiVars, pollVars, download>>

vars == <<scene, snapshotAvail, restoreAvail, sceneAvail, undoStack, redoStack,
          hasUnsavedChanges, lastOp, ret, retIfOk, raised, restoreCalls,
          callbackThrew, pre, prev, pushLog, restored, pendingData, isDirty,
          lastHash, saveTimer, localStorage, autoOp, autoPrev,
          now, timers, timer, lastCall, burstCalls, firesSinceCall, invokedAt,
          loaderElement, display, isStartupPhase, loaderStartTime,
          usedPlainHide, hideRequested, hideSinceShow,
          currentLang, SUPPORTED, DICT, query, langStored, browserLang, i18nOp,
          customKinds, baseGeom, faceGeoms, loadAvail, historyPresent, ioOp,
          windowHasUnsavedChanges, classList, uiOp, startTime, pollOp,
          download>>

Last(s) == s[Len(s)]

Front(s) == SubSeq(s, 1, Len(s) - 1)

Stacks == [undo |-> undoStack, redo |-> redoStack, dirty |-> hasUnsavedChanges]

\* What a call to the external restoreScene may do: return, throw before it
\* touched the scene, or throw after it replaced the scene.
RestoreOutcomes == {"ok", "throwsBefore", "throwsAfter"}

Throws(outcome) == outcome # "ok"

SceneAfterRestore(outcome, s) == IF outcome = "throwsBefore" THEN scene ELSE s

\* ---------------------------------------------------------------------------
\* history.js
\* ---------------------------------------------------------------------------

\* faulty variant: the newest entries are dropped instead of the oldest
LimitStackSize_DropNewest(u) ==
  IF Len(u) > MAX_UNDO_STEPS THEN SubSeq(u, 1, MAX_UNDO_STEPS) ELSE u

\* while (undoStack.length > MAX_UNDO_STEPS) undoStack.shift();
RECURSIVE LimitStackSize(_)
LimitStackSize(u) ==
  IF Len(u) > MAX_UNDO_STEPS THEN LimitStackSize(Tail(u)) ELSE u

\* faulty variant: the redo stack survives a push
ClearRedoOnPush_Kept(r) == r

\* redoStack.length = 0 in pushState
ClearRedoOnPush(r) == <<>>

\* pushState() applied to stacks st: the stacks afterwards, whether a
\* snapshot was captured, and what the caller observes.
PushStateOf(st, sc, snapThrows) ==
  IF ~snapshotAvail
    THEN [undo |-> st.undo, redo |-> st.redo, dirty |-> st.dirty,
          captured |-> FALSE, threw |-> FALSE, ret |-> "undefined",
          raised |-> FALSE]
  ELSE IF snapThrows
    THEN [undo |-> st.undo, redo |-> st.redo, dirty |-> st.dirty,
          captured |-> FALSE, threw |-> TRUE, ret |-> "undefined",
          raised |-> FALSE]
  ELSE [undo |-> LimitStackSize(Append(st.undo, sc)),
        redo |-> ClearRedoOnPush(st.redo), dirty |-> TRUE,
        captured |-> TRUE, threw |-> FALSE, ret |-> "undefined",
        raised |-> FALSE]

\* pushState() in the scene in effect
PushStateFrom(st, snapThrows) == PushStateOf(st, scene, snapThrows)

\* clear() applied to any stacks
ClearFrom(st) == [undo |-> <<>>, redo |-> <<>>, dirty |-> FALSE]

\* faulty variant: reset() pushes the baseline without clearing first
ResetFrom_NoClear(st, snapThrows) == PushStateFrom(st, snapThrows)

\* reset(): clear(); pushState();
ResetFrom(st, snapThrows) == PushStateFrom(ClearFrom(st), snapThrows)

\* faulty variant: the stacks are not cleared before the baseline is pushed
ResetOf_NoClear(st, sc, snapThrows) == PushStateOf(st, sc, snapThrows)

\* reset() in the scene sc
ResetOf(st, sc, snapThrows) == PushStateOf(ClearFrom(st), sc, snapThrows)

\* faulty variant: undo() is refused only on an empty stack
NothingToUndo_OnlyEmpty(u) == Len(u) = 0

\* if (undoStack.length <= 1) return false;
NothingToUndo(u) == Len(u) <= 1

\* faulty variant: redo() uses the guard of undo()
NothingToRedo_AtMostOne(r) == Len(r) <= 1

\* if (redoStack.length === 0) return false;
NothingToRedo(r) == Len(r) = 0

\* if (previousState) { restoreScene(previousState); }
RestoresPrevious(previousState) == Truthy(previousState)

\* faulty variant: the catch block reports success
CatchReturn_True == "true"

\* the value returned from the catch block of undo() and of redo()
CatchReturn == "false"

\* undoStack[undoStack.length - 1]: indexing an empty array gives undefined,
\* a falsy value
TopOrUndefined(u) == IF u = <<>> THEN Null ELSE Last(u)

\* faulty variant: undo() leaves its entry on the undo stack
PopUndo_Kept(u) == u

\* undoStack.pop() in undo()
PopUndo(u) == Front(u)

\* undo() applied to the current stacks.
UndoResult(outcome) ==
  IF NothingToUndo(undoStack) \/ ~restoreAvail
    THEN [undo |-> undoStack, redo |-> redoStack, dirty |-> hasUnsavedChanges,
          scene |-> scene, calls |-> <<>>, threw |-> FALSE,
          ret |-> "false", raised |-> FALSE]
  ELSE
    LET currentState == Last(undoStack)
        u == PopUndo(undoStack)
        r == Append(redoStack, currentState)
        previousState == TopOrUndefined(u)
    IN  IF ~RestoresPrevious(previousState)
          THEN [undo |-> u, redo |-> r, dirty |-> TRUE,
                scene |-> scene, calls |-> <<>>, threw |-> FALSE,
                ret |-> "true", raised |-> FALSE]
        ELSE IF Throws(outcome)
          THEN [undo |-> u, redo |-> r, dirty |-> hasUnsavedChanges,
                scene |-> SceneAfterRestore(outcome, previousState),
                calls |-> <<previousState>>,
                threw |-> TRUE, ret |-> CatchReturn, raised |-> FALSE]
        ELSE [undo |-> u, redo |-> r, dirty |-> TRUE,
              scene |-> previousState, calls |-> <<previousState>>,
              threw |-> FALSE, ret |-> "true", raised |-> FALSE]

\* faulty variant: redo() pops the redo stack but forgets to push onto the undo stack
RedoResult_NoPush(outcome) ==
  IF NothingToRedo(redoStack) \/ ~restoreAvail
    THEN [undo |-> undoStack, redo |-> redoStack, dirty |-> hasUnsavedChanges,
          scene |-> scene, calls |-> <<>>, threw |-> FALSE,
          ret |-> "false", raised |-> FALSE]
  ELSE
    LET stateToRestore == Last(redoStack)
        r == Front(redoStack)
        u == undoStack
    IN  IF Throws(outcome)
          THEN [undo |-> u, redo |-> r, dirty |-> hasUnsavedChanges,
                scene |-> SceneAfterRestore(outcome, stateToRestore),
                calls |-> <<stateToRestore>>,
                threw |-> TRUE, ret |-> CatchReturn, raised |-> FALSE]
        ELSE [undo |-> u, redo |-> r, dirty |-> TRUE,
              scene |-> stateToRestore, calls |-> <<stateToRestore>>,
              threw |-> FALSE, ret |-> "true", raised |-> FALSE]

\* redo() applied to the current stacks.
RedoResult(outcome) ==
  IF NothingToRedo(redoStack) \/ ~restoreAvail
    THEN [undo |-> undoStack, redo |-> redoStack, dirty |-> hasUnsavedChanges,
          scene |-> scene, calls |-> <<>>, threw |-> FALSE,
          ret |-> "false", raised |-> FALSE]
  ELSE
    LET stateToRestore == Last(redoStack)
        r == Front(redoStack)
        u == Append(undoStack, stateToRestore)
    IN  IF Throws(outcome)
          THEN [undo |-> u, redo |-> r, dirty |-> hasUnsavedChanges,
                scene |-> SceneAfterRestore(outcome, stateToRestore),
                calls |-> <<stateToRestore>>,
                threw |-> TRUE, ret |-> CatchReturn, raised |-> FALSE]
        ELSE [undo |-> u, redo |-> r, dirty |-> TRUE,
              scene |-> stateToRestore, calls |-> <<stateToRestore>>,
              threw |-> FALSE, ret |-> "true", raised |-> FALSE]

\* ---------------------------------------------------------------------------
\* autosave.js: strings, JSON and the hash
\* ---------------------------------------------------------------------------

\* Strings are sequences of character codes.
StrNull == <<110, 117, 108, 108>>

\* the value null of a string variable, and an item absent from localStorage
NoString == <<>>

\* the elements of an array of k objects, joined by commas
RECURSIVE JoinElements(_)
JoinElements(k) ==
  IF k = 0 THEN <<>>
  ELSE IF k = 1 THEN <<49>>
  ELSE <<49, 44>> \o JoinElements(k - 1)

\* JSON.stringify of a snapshot value
Stringify(v) ==
  IF v.isNull THEN StrNull ELSE <<91>> \o JoinElements(Len(v.objs)) \o <<93>>

\* the text between the brackets is a comma-separated list of elements
IsElementList(t) ==
  \/ t = <<>>
  \/ /\ Len(t) % 2 = 1
     /\ \A i \in 1..Len(t) : t[i] = (IF i % 2 = 1 THEN 49 ELSE 44)

\* JSON.parse: ok is FALSE when it throws a SyntaxError
ParseJSON(str) ==
  IF str = StrNull THEN [ok |-> TRUE, value |-> Null]
  ELSE IF /\ Len(str) >= 2
          /\ str[1] = 91
          /\ str[Len(str)] = 93
          /\ IsElementList(SubSeq(str, 2, Len(str) - 1))
    THEN [ok |-> TRUE, value |-> ArrayOf((Len(str) - 1) \div 2)]
  ELSE [ok |-> FALSE, value |-> Null]

\* Array.isArray of a parsed value
IsArray(v) == ~v.isNull

\* bitwise exclusive or of two non-negative integers
RECURSIVE Xor(_, _)
Xor(a, b) ==
  IF a = 0 THEN b
  ELSE IF b = 0 THEN a
  ELSE 2 * Xor(a \div 2, b \div 2) + (((a % 2) + (b % 2)) % 2)

\* A 32-bit word is kept as two 16-bit halves.
\* h = ((h << 5) + h) ^ c, in 32-bit arithmetic
HashStep(h, c) ==
  LET lo33 == h.lo * 33
      hi33 == h.hi * 33 + (lo33 \div 65536)
  IN  [hi |-> hi33 % 65536, lo |-> Xor(lo33 % 65536, c)]

\* while (i) { h = ... str.charCodeAt(--i) }: from the last character down
RECURSIVE HashFrom(_, _, _)
HashFrom(str, i, h) ==
  IF i = 0 THEN h ELSE HashFrom(str, i - 1, HashStep(h, str[i]))

HexDigit(d) == IF d < 10 THEN 48 + d ELSE 87 + d

\* Number.prototype.toString(16) of a non-negative integer below 65536
RECURSIVE Hex(_)
Hex(n) == IF n < 16 THEN <<HexDigit(n)>> ELSE Append(Hex(n \div 16), HexDigit(n % 16))

\* the four hexadecimal digits of the low half under a non-zero high half
Hex4(n) ==
  <<HexDigit(n \div 4096), HexDigit((n \div 256) % 16),
    HexDigit((n \div 16) % 16), HexDigit(n % 16)>>

\* (h >>> 0).toString(16)
ToHex(h) == IF h.hi = 0 THEN Hex(h.lo) ELSE Hex(h.hi) \o Hex4(h.lo)

\* hash(str): djb2 with xor, as a hexadecimal string
Djb2(str) == ToHex(HashFrom(str, Len(str), [hi |-> 0, lo |-> 5381]))

\* the hashes of the strings the module stores, computed once
SnapshotHashes == [str \in {Stringify(v) : v \in Snapshots} |-> Djb2(str)]

hash(str) ==
  IF str \in DOMAIN SnapshotHashes THEN SnapshotHashes[str] ELSE Djb2(str)

\* lastHash = null
NoHash == <<>>

\* the metadata item: JSON.stringify({ts: Date.now(), hash: h}); the time
\* stamp is never read back and is left out
NoMeta == [present |-> FALSE, hash |-> NoHash]

Meta(h) == [present |-> TRUE, hash |-> h]

EmptyStorage == [snap |-> NoString, meta |-> NoMeta]

\* what an earlier session of the module may have left in localStorage:
\* nothing, or a snapshot together with its metadata
InitialStorages ==
  {EmptyStorage}
  \cup {[snap |-> Stringify(v), meta |-> Meta(hash(Stringify(v)))] :
          v \in Snapshots}

\* how the two storage calls of save() or clear() may end
StorageOutcomes == {"ok", "firstThrows", "secondThrows"}

NoCall == [op |-> "init", ready |-> FALSE, content |-> NoString,
           calls |-> <<>>, threw |-> FALSE, ret |-> "undefined"]

\* what is remembered of a call once another call has followed it
Remembered(call) == [op |-> call.op, ready |-> call.ready,
                     content |-> call.content, threw |-> call.threw,
                     wrote |-> call.calls # <<>>]

InitAutosaveIdle ==
  /\ restored = FALSE
  /\ pendingData = NoString
  /\ isDirty = FALSE
  /\ lastHash = NoHash
  /\ saveTimer = FALSE
  /\ localStorage = EmptyStorage
  /\ autoOp = NoCall
  /\ autoPrev = Remembered(NoCall)

\* ---------------------------------------------------------------------------
\* The browser's clock and timers; debounce (autosave.js and utils.js)
\* ---------------------------------------------------------------------------

\* the clock advances by at most TickMs at a time, up to MaxTime
TickMs == 100

MaxTime == 1200

\* the count of calls in a burst is kept up to MaxBurst
MaxBurst == 3

\* autosave.js: var DEBOUNCE_MS = 300
DEBOUNCE_MS == 300

\* the delay used when ms is falsy: ms || 250
DefaultDebounceMs == 250

Min(a, b) == IF a <= b THEN a ELSE b

InitClock ==
  /\ now = 0
  /\ timers = {}

InitDebounce ==
  /\ timer = 0
  /\ lastCall = -1
  /\ burstCalls = 0
  /\ firesSinceCall = 0
  /\ invokedAt = -1

\* ---------------------------------------------------------------------------
\* i18n.js: language codes
\* ---------------------------------------------------------------------------

\* A code is a sequence of characters; NullCode stands for null and undefined.
NullCode == <<"null">>

DEFAULT_LANG == <<"e", "n">>

RU == <<"r", "u">>

DE == <<"d", "e">>

\* var SUPPORTED = ['en', 'ru'], and the keys of DICT
InitialSupported == {DEFAULT_LANG, RU}

\* the codes given to setLang
Codes ==
  { NullCode, <<>>, DEFAULT_LANG, RU, DE, <<"R", "U">>,
    <<"r", "u", "-", "R", "U">>, <<"d", "e", "-", "D", "E">>,
    <<" ", "r", "u">> }

\* the values of the lang parameter of the URL
QueryValues == { NullCode, <<>>, RU, DE, <<"1", "2">> }

\* the values of the stored entry when the page is first loaded
StoredValues == { NullCode, <<>>, RU, DE }

\* the values of the browser's language
BrowserValues ==
  { NullCode, <<"e", "n", "-", "U", "S">>, <<"r", "u", "-", "R", "U">> }

\* the codes given to addTranslations
AddedLangs == { RU, DE }

Letters == {"e", "n", "r", "u", "d", "E", "N", "R", "U", "D", "S", "s"}

ToLowerChar(c) ==
  CASE c = "E" -> "e"
    [] c = "N" -> "n"
    [] c = "R" -> "r"
    [] c = "U" -> "u"
    [] c = "D" -> "d"
    [] c = "S" -> "s"
    [] OTHER -> c

\* String(code).toLowerCase()
ToLowerCase(code) == [i \in 1..Len(code) |-> ToLowerChar(code[i])]

RECURSIVE TrimStart(_)
TrimStart(s) ==
  IF s # <<>> /\ Head(s) = " " THEN TrimStart(Tail(s)) ELSE s

RECURSIVE TrimEnd(_)
TrimEnd(s) ==
  IF s # <<>> /\ s[Len(s)] = " " THEN TrimEnd(SubSeq(s, 1, Len(s) - 1)) ELSE s

Trim(s) == TrimEnd(TrimStart(s))

\* code.split('-')[0]
RECURSIVE FirstPart(_)
FirstPart(s) ==
  IF s = <<>> \/ Head(s) = "-" THEN <<>> ELSE <<Head(s)>> \o FirstPart(Tail(s))

\* normalizeLang up to the test against SUPPORTED
NormalForm(code) ==
  LET c == Trim(ToLowerCase(code)) IN
  IF \E i \in 1..Len(c) : c[i] = "-" THEN FirstPart(c) ELSE c

\* the truth value of a code in JavaScript: null and '' are falsy
TruthyCode(v) == v # NullCode /\ v # <<>>

\* faulty variant: a code that is not supported is kept
NormalizeIn_NoFallback(supported, code) ==
  IF ~TruthyCode(code) THEN DEFAULT_LANG ELSE NormalForm(code)

NormalizeIn(supported, code) ==
  IF ~TruthyCode(code) THEN DEFAULT_LANG
  ELSE IF NormalForm(code) \in supported THEN NormalForm(code)
  ELSE DEFAULT_LANG

normalizeLang(code) == NormalizeIn(SUPPORTED, code)

\* the longest prefix of s made of letters and hyphens
RECURSIVE MatchPrefix(_)
MatchPrefix(s) ==
  IF s # <<>> /\ Head(s) \in Letters \cup {"-"}
    THEN <<Head(s)>> \o MatchPrefix(Tail(s))
    ELSE <<>>

\* location.search.match(/[?&]lang=([a-zA-Z\-]+)/): the group, or null
getLangFromQuery(value) ==
  IF value = NullCode \/ MatchPrefix(value) = <<>> THEN NullCode
  ELSE MatchPrefix(value)

\* a || b
OrElse(a, b) == IF TruthyCode(a) THEN a ELSE b

\* faulty variant: the stored entry is looked at before the URL
LoadChoice_StoredFirst(q, s, b) == OrElse(s, OrElse(q, OrElse(b, DEFAULT_LANG)))

\* getLangFromQuery() || getLangFromStorage() || getBrowserLang() || DEFAULT_LANG
LoadChoice(q, s, b) == OrElse(q, OrElse(s, OrElse(b, DEFAULT_LANG)))

I18nCall(op, arg, r, before, read) ==
  [op |-> op, arg |-> arg, ret |-> r, before |-> before, read |-> read]

NoI18nCall == I18nCall("none", NullCode, NullCode, NullCode, NullCode)

InitI18nIdle ==
  /\ currentLang = DEFAULT_LANG
  /\ SUPPORTED = InitialSupported
  /\ DICT = InitialSupported
  /\ query = NullCode
  /\ langStored = NullCode
  /\ browserLang = NullCode
  /\ i18nOp = NoI18nCall

\* ---------------------------------------------------------------------------
\* io.js: files and registries
\* ---------------------------------------------------------------------------

\* What JSON.parse makes of a file: "invalid" when it throws, "array" for a
\* top-level array, "object" for an object, whose member snapshot is an array
\* or (Null) is not, and which has a customKinds object or not, "scalar" for
\* any other value.
File(kind, snapshot, custom) ==
  [kind |-> kind, snapshot |-> snapshot, custom |-> custom]

\* the snapshot arrays found in files: the empty one and a scene
FileArrays == {ArrayOf(0), ArrayOf(MaxObjects)}

Files ==
  {File("invalid", Null, FALSE), File("scalar", Null, FALSE)}
    \cup {File("array", s, FALSE) : s \in FileArrays}
    \cup {File("object", s, TRUE) : s \in FileArrays \cup {Null}}

\* the state of a registry as to the custom kind of the files: the registry
\* is not defined, has no such kind, has the application's, or has the file's
RegistryStates == {"undefined", "absent", "app", "file"}

\* the registries before any import
RegistriesAtStart == {"undefined", "app"}

\* what the calls made during importJSON can do
IoOutcomes ==
  [customThrows : BOOLEAN, restore : RestoreOutcomes, snapThrows : BOOLEAN]

IoCall(op, file, r, alert, calls, restoreThrew, captured, before) ==
  [op |-> op, file |-> file, ret |-> r, alert |-> alert, calls |-> calls,
   restoreThrew |-> restoreThrew, captured |-> captured, pre |-> before]

NoIoCall ==
  IoCall("none", File("invalid", Null, FALSE), "undefined", "none", <<>>,
         FALSE, FALSE,
         [undo |-> <<>>, redo |-> <<>>, customKinds |-> "undefined",
          baseGeom |-> "undefined", faceGeoms |-> "undefined"])

InitIoIdle ==
  /\ customKinds = "undefined"
  /\ baseGeom = "undefined"
  /\ faceGeoms = "undefined"
  /\ loadAvail = FALSE
  /\ historyPresent = TRUE
  /\ ioOp = NoIoCall

\* the classes by which the UI module marks the open panels
HELP == "help-open"
NAV == "nav-open"
EDITOR == "editor-open"
PanelClasses == {HELP, NAV, EDITOR}

\* the key events told apart by handleKeyboard
Keys == {"Escape", "z", "Z", "a"}

KeyEvent(key, ctrlOrMeta, shift) ==
  [key |-> key, ctrlOrMeta |-> ctrlOrMeta, shiftKey |-> shift]

UiCall(op, e, before) == [op |-> op, e |-> e, before |-> before]

NoUiCall == UiCall("init", KeyEvent("a", FALSE, FALSE), {})

\* init() has run: the keyboard handler is registered and the help is open
InitUiIdle ==
  /\ classList = {HELP}
  /\ uiOp = NoUiCall

\* the load event has not been handled yet
NotLoaded == -1

\* a tick of the restore polling: its number, what tryRestore() returned,
\* Date.now() - startTime, and whether it cleared the interval
PollTick(n, r, elapsed, cleared) ==
  [ticks |-> n, ret |-> r, elapsed |-> elapsed, cleared |-> cleared]

NoPoll == PollTick(0, "undefined", 0, FALSE)

InitPollIdle ==
  /\ startTime = NotLoaded
  /\ pollOp = NoPoll

\* nothing has been exported
NoDownload == [text |-> NoString, snapshot |-> Null]

\* utils.js: loaderStartTime = 0, isStartupPhase = false; the element's
\* style.display is not set until show() or a hide sets it
InitLoaderState ==
  /\ display = ""
  /\ isStartupPhase = FALSE
  /\ loaderStartTime = 0
  /\ usedPlainHide = FALSE
  /\ hideRequested = FALSE
  /\ hideSinceShow = TRUE

InitRestIdle ==
  /\ InitClock
  /\ InitDebounce
  /\ InitLoaderState
  /\ InitUiIdle
  /\ InitPollIdle
  /\ download = NoDownload
  /\ loaderElement = TRUE
  /\ InitI18nIdle
  /\ InitIoIdle

\* setTimeout returns an id that no pending timer has
NewTimerId(ts) == CHOOSE i \in 1..(Cardinality(ts) + 1) : \A t \in ts : t.id # i

SetTimeout(ts, cb, delay) ==
  ts \cup {[id |-> NewTimerId(ts), due |-> now + delay, cb |-> cb]}

\* faulty variant: the pending timer is not cleared
ClearTimeout_Kept(ts, id) == ts

\* clearTimeout(id): no effect when no pending timer has that id
ClearTimeout(ts, id) == {t \in ts : t.id # id}

\* faulty variant: the delay given to debounce is ignored
DelayOf_Default(ms) == DefaultDebounceMs

\* ms || 250
DelayOf(ms) == IF ms = 0 THEN DefaultDebounceMs ELSE ms

\* Time passes, but not beyond the moment a pending timer is due.
TickBy(step, max) ==
  /\ now < max
  /\ \A t \in timers : t.due > now
  /\ LET target == Min(now + step, max)
         dues == {t.due : t \in timers}
     IN  now' = IF \E d \in dues : d < target
                  THEN CHOOSE d \in dues : \A e \in dues : d <= e
                  ELSE target

Tick == TickBy(TickMs, MaxTime)

\* the function returned by debounce(fn, ms) is called:
\* clearTimeout(timer); timer = setTimeout(function() { fn... }, ms || 250)
DebouncedCallIn(ts, ms) ==
  LET cleared == ClearTimeout(ts, timer) IN
  /\ timers' = SetTimeout(cleared, "debounced", DelayOf(ms))
  /\ timer' = NewTimerId(cleared)
  /\ lastCall' = now
  /\ burstCalls' = IF firesSinceCall > 0 THEN 1
                   ELSE Min(burstCalls + 1, MaxBurst)
  /\ firesSinceCall' = 0
  /\ UNCHANGED <<now, invokedAt>>

DebouncedCall(ms) == DebouncedCallIn(timers, ms)

\* a pending timer of the debounced function is due: the wrapped function runs
DebounceTimerFires(t) ==
  /\ t \in timers
  /\ t.cb = "debounced"
  /\ t.due <= now
  /\ timers' = timers \ {t}
  /\ firesSinceCall' = firesSinceCall + 1
  /\ invokedAt' = now
  /\ UNCHANGED <<now, timer, lastCall, burstCalls>>

InitApp ==
  /\ scene \in Snapshots
  /\ snapshotAvail = FALSE
  /\ restoreAvail = FALSE
  /\ sceneAvail = FALSE

InitHistory ==
  /\ undoStack = <<>>
  /\ redoStack = <<>>
  /\ hasUnsavedChanges = FALSE
  /\ windowHasUnsavedChanges = hasUnsavedChanges
  /\ lastOp = "init"
  /\ ret = "undefined"
  /\ retIfOk = "undefined"
  /\ raised = FALSE
  /\ restoreCalls = <<>>
  /\ callbackThrew = FALSE
  /\ pre = [undo |-> <<>>, redo |-> <<>>, dirty |-> FALSE]
  /\ prev = [op |-> "init", ret |-> "undefined"]
  /\ pushLog = <<>>

Init ==
  /\ InitApp
  /\ InitHistory
  /\ InitAutosaveIdle
  /\ InitRestIdle

\* A step of the application, which is not a call into the history.
AppStep(op) ==
  /\ lastOp' = op
  /\ ret' = "undefined"
  /\ retIfOk' = "undefined"
  /\ raised' = FALSE
  /\ restoreCalls' = <<>>
  /\ callbackThrew' = FALSE
  /\ pre' = Stacks
  /\ prev' = [op |-> lastOp, ret |-> ret]
  /\ UNCHANGED <<undoStack, redoStack, hasUnsavedChanges, pushLog>>
  /\ UNCHANGED <<autoVars, restVars>>
  /\ ioOp' = NoIoCall

\* The application script defines window.snapshotScene.
DefineSnapshotScene ==
  /\ ~snapshotAvail
  /\ snapshotAvail' = TRUE
  /\ AppStep("define")
  /\ UNCHANGED <<scene, restoreAvail, sceneAvail>>

\* The application script defines window.restoreScene.
DefineRestoreScene ==
  /\ ~restoreAvail
  /\ restoreAvail' = TRUE
  /\ AppStep("define")
  /\ UNCHANGED <<scene, snapshotAvail, sceneAvail>>

\* The user edits the scene through the application.
EditScene(s) ==
  /\ s # scene
  /\ scene' = s
  /\ AppStep("edit")
  /\ UNCHANGED <<snapshotAvail, restoreAvail, sceneAvail>>

\* A call of pushState() or reset() in the scene sc, whose result is res.
HistoryPush(op, res, resIfOk, log, sc) ==
  /\ undoStack' = res.undo
  /\ redoStack' = res.redo
  /\ hasUnsavedChanges' = res.dirty
  /\ lastOp' = op
  /\ ret' = res.ret
  /\ retIfOk' = resIfOk.ret
  /\ raised' = res.raised
  /\ restoreCalls' = <<>>
  /\ callbackThrew' = res.threw
  /\ pre' = Stacks
  /\ prev' = [op |-> lastOp, ret |-> ret]
  /\ pushLog' = IF res.captured THEN Append(log, sc) ELSE log

ApplyPush(op, res, resIfOk, log) ==
  /\ HistoryPush(op, res, resIfOk, log, scene)
  /\ UNCHANGED appVars
  /\ UNCHANGED <<autoVars, restVars>>
  /\ ioOp' = NoIoCall

pushState(snapThrows) ==
  /\ Len(pushLog) < MaxPushes
  /\ ApplyPush("pushState", PushStateFrom(Stacks, snapThrows),
               PushStateFrom(Stacks, FALSE), pushLog)

\* A call of undo() or redo(), whose result is res.
ApplyRestore(op, res, resIfOk) ==
  /\ undoStack' = res.undo
  /\ redoStack' = res.redo
  /\ hasUnsavedChanges' = res.dirty
  /\ scene' = res.scene
  /\ lastOp' = op
  /\ ret' = res.ret
  /\ retIfOk' = resIfOk.ret
  /\ raised' = res.raised
  /\ restoreCalls' = res.calls
  /\ callbackThrew' = res.threw
  /\ pre' = Stacks
  /\ prev' = [op |-> lastOp, ret |-> ret]
  /\ pushLog' = <<>>
  /\ UNCHANGED <<snapshotAvail, restoreAvail, sceneAvail>>
  /\ UNCHANGED <<autoVars, restVars>>
  /\ ioOp' = NoIoCall

undo(outcome) == ApplyRestore("undo", UndoResult(outcome), UndoResult("ok"))

redo(outcome) == ApplyRestore("redo", RedoResult(outcome), RedoResult("ok"))

clear ==
  LET res == ClearFrom(Stacks) IN
  /\ undoStack' = res.undo
  /\ redoStack' = res.redo
  /\ hasUnsavedChanges' = res.dirty
  /\ lastOp' = "clear"
  /\ ret' = "undefined"
  /\ retIfOk' = "undefined"
  /\ raised' = FALSE
  /\ restoreCalls' = <<>>
  /\ callbackThrew' = FALSE
  /\ pre' = Stacks
  /\ prev' = [op |-> lastOp, ret |-> ret]
  /\ pushLog' = <<>>
  /\ UNCHANGED appVars
  /\ UNCHANGED <<autoVars, restVars>>
  /\ ioOp' = NoIoCall

reset(snapThrows) ==
  ApplyPush("reset", ResetFrom(Stacks, snapThrows), ResetFrom(Stacks, FALSE),
            <<>>)

Next ==
  \/ DefineSnapshotScene
  \/ DefineRestoreScene
  \/ \E s \in Snapshots : EditScene(s)
  \/ \E t \in BOOLEAN : pushState(t)
  \/ \E o \in RestoreOutcomes : undo(o)
  \/ \E o \in RestoreOutcomes : redo(o)
  \/ clear
  \/ \E t \in BOOLEAN : reset(t)

Spec == Init /\ [][Next]_vars

otherThanDebounce == <<appVars, histVars, autoVars, loaderVars, i18nVars,
                       ioVars, ioOp, windowVars, uiVars, pollVars, download>>

NextDebounce ==
  \/ Tick /\ UNCHANGED <<timers, debounceVars, otherThanDebounce>>
  \/ DebouncedCall(DEBOUNCE_MS) /\ UNCHANGED otherThanDebounce
  \/ \E t \in timers : DebounceTimerFires(t) /\ UNCHANGED otherThanDebounce

SpecDebounce == Init /\ [][NextDebounce]_vars

\* ---------------------------------------------------------------------------
\* The loader (utils.js)
\* ---------------------------------------------------------------------------

\* utils.js: var MIN_STARTUP_DURATION = 3000
MIN_STARTUP_DURATION == 3000

\* the clock of the loader advances by at most LoaderTickMs, up to LoaderMaxTime
LoaderTickMs == 1000

LoaderMaxTime == 7000

\* hideWithMinDuration() is called while fewer than MaxTimers timers are pending
MaxTimers == 2

otherThanLoader == <<appVars, histVars, autoVars, debounceVars, i18nVars,
                     ioVars, ioOp, windowVars, uiVars, pollVars, download>>

\* the page may lack the loader element: getLoaderElement() is then null
InitLoader ==
  /\ InitApp
  /\ InitHistory
  /\ InitAutosaveIdle
  /\ InitClock
  /\ InitDebounce
  /\ InitLoaderState
  /\ InitUiIdle
  /\ InitPollIdle
  /\ download = NoDownload
  /\ loaderElement \in BOOLEAN
  /\ InitI18nIdle
  /\ InitIoIdle

\* root.style.display = 'none', when the element exists
HideImmediateDisplay == IF loaderElement THEN "none" ELSE display

show ==
  /\ IF ~loaderElement
       THEN UNCHANGED <<display, isStartupPhase, loaderStartTime, hideRequested>>
       ELSE /\ IF ~isStartupPhase
                 THEN /\ isStartupPhase' = TRUE
                      /\ loaderStartTime' = now
                      /\ hideRequested' = FALSE
                 ELSE UNCHANGED <<isStartupPhase, loaderStartTime, hideRequested>>
            /\ display' = "flex"
  /\ hideSinceShow' = (hideSinceShow /\ ~loaderElement)
  /\ UNCHANGED <<loaderElement, usedPlainHide, clockVars>>

hideImmediate ==
  /\ display' = HideImmediateDisplay
  /\ usedPlainHide' = TRUE
  /\ hideSinceShow' = TRUE
  /\ UNCHANGED <<loaderElement, isStartupPhase, loaderStartTime, hideRequested,
                 clockVars>>

hide ==
  /\ isStartupPhase' = FALSE
  /\ display' = HideImmediateDisplay
  /\ usedPlainHide' = TRUE
  /\ hideSinceShow' = TRUE
  /\ UNCHANGED <<loaderElement, loaderStartTime, hideRequested, clockVars>>

\* elapsed >= MIN_STARTUP_DURATION is false
MustWait(elapsed) == elapsed < MIN_STARTUP_DURATION

hideWithMinDuration ==
  LET elapsed == now - loaderStartTime IN
  /\ IF ~isStartupPhase
       THEN /\ display' = HideImmediateDisplay
            /\ UNCHANGED <<isStartupPhase, hideRequested, timers>>
       ELSE /\ hideRequested' = TRUE
            /\ IF ~MustWait(elapsed)
                 THEN /\ isStartupPhase' = FALSE
                      /\ display' = HideImmediateDisplay
                      /\ UNCHANGED timers
                 ELSE /\ Cardinality(timers) < MaxTimers
                      /\ timers' = SetTimeout(timers, "hideLoader",
                                              MIN_STARTUP_DURATION - elapsed)
                      /\ UNCHANGED <<isStartupPhase, display>>
  /\ hideSinceShow' = TRUE
  /\ UNCHANGED <<loaderElement, loaderStartTime, usedPlainHide, now>>

\* the timer set by hideWithMinDuration() is due
HideTimerFires(t) ==
  /\ t \in timers
  /\ t.cb = "hideLoader"
  /\ t.due <= now
  /\ timers' = timers \ {t}
  /\ isStartupPhase' = FALSE
  /\ display' = HideImmediateDisplay
  /\ UNCHANGED <<loaderElement, loaderStartTime, usedPlainHide, hideRequested,
                 hideSinceShow, now>>

LoaderTick == TickBy(LoaderTickMs, LoaderMaxTime)

NextLoader ==
  \/ show /\ UNCHANGED otherThanLoader
  \/ hideImmediate /\ UNCHANGED otherThanLoader
  \/ hide /\ UNCHANGED otherThanLoader
  \/ hideWithMinDuration /\ UNCHANGED otherThanLoader
  \/ \E t \in timers : HideTimerFires(t) /\ UNCHANGED otherThanLoader
  \/ LoaderTick /\ UNCHANGED <<timers, loaderVars, otherThanLoader>>

SpecLoader == InitLoader /\ [][NextLoader]_vars

\* ---------------------------------------------------------------------------
\* The UI module: help modal, side navigation, editor panel, keyboard
\* ---------------------------------------------------------------------------

otherThanUi == <<appVars, histVars, autoVars, clockVars, debounceVars,
                 loaderVars, i18nVars, ioVars, ioOp, windowVars, pollVars, download>>

\* classList.toggle(c)
Toggle(cl, c) == IF c \in cl THEN cl \ {c} ELSE cl \cup {c}

UiStep(op, cl) ==
  /\ classList' = cl
  /\ uiOp' = UiCall(op, NoUiCall.e, classList)
  /\ UNCHANGED otherThanUi

openHelp == UiStep("openHelp", classList \cup {HELP})
closeHelp == UiStep("closeHelp", classList \ {HELP})
toggleHelp == UiStep("toggleHelp", Toggle(classList, HELP))

openNav == UiStep("openNav", classList \cup {NAV})
closeNav == UiStep("closeNav", classList \ {NAV})
toggleNav == UiStep("toggleNav", Toggle(classList, NAV))

openEditor == UiStep("openEditor", classList \cup {EDITOR})
closeEditor == UiStep("closeEditor", classList \ {EDITOR})
toggleEditor == UiStep("toggleEditor", Toggle(classList, EDITOR))

\* Ctrl+Shift+Z (or Cmd+Shift+Z) is blocked before anything else
BlockedShortcut(e) == e.ctrlOrMeta /\ e.shiftKey /\ e.key \in {"z", "Z"}

\* faulty variant: Escape closes every open panel
AfterEscape_AllClosed(cl) == cl \ PanelClasses

\* the if / else if chain on Escape: help, then navigation, then editor
AfterEscape(cl) ==
  IF HELP \in cl THEN cl \ {HELP}
  ELSE IF NAV \in cl THEN cl \ {NAV}
  ELSE IF EDITOR \in cl THEN cl \ {EDITOR}
  ELSE cl

handleKeyboard(e) ==
  /\ classList' = IF ~BlockedShortcut(e) /\ e.key = "Escape"
                    THEN AfterEscape(classList)
                    ELSE classList
  /\ uiOp' = UiCall("handleKeyboard", e, classList)
  /\ UNCHANGED otherThanUi

NextUI ==
  \/ openHelp
  \/ closeHelp
  \/ toggleHelp
  \/ openNav
  \/ closeNav
  \/ toggleNav
  \/ openEditor
  \/ closeEditor
  \/ toggleEditor
  \/ \E k \in Keys, c \in BOOLEAN, s \in BOOLEAN :
       handleKeyboard(KeyEvent(k, c, s))

SpecUI == Init /\ [][NextUI]_vars

\* ---------------------------------------------------------------------------
\* i18n.js
\* ---------------------------------------------------------------------------

otherThanI18n == <<appVars, histVars, autoVars, clockVars, debounceVars,
                   loaderVars, ioVars, ioOp, windowVars, uiVars, pollVars, download>>

\* The module is loaded: currentLang = normalizeLang(...), with SUPPORTED and
\* DICT as written in the source; getLangFromStorage() gives null when
\* localStorage throws.
LoadModule(storageThrows) ==
  LET read == IF storageThrows THEN NullCode ELSE langStored IN
  /\ SUPPORTED' = InitialSupported
  /\ DICT' = InitialSupported
  /\ currentLang' = NormalizeIn(InitialSupported,
                       LoadChoice(getLangFromQuery(query'), read, browserLang'))
  /\ i18nOp' = I18nCall("load", NullCode, NullCode, NullCode, read)

InitI18n ==
  /\ InitApp
  /\ InitHistory
  /\ InitAutosaveIdle
  /\ InitClock
  /\ InitDebounce
  /\ InitLoaderState
  /\ InitUiIdle
  /\ InitPollIdle
  /\ download = NoDownload
  /\ loaderElement = TRUE
  /\ InitIoIdle
  /\ query \in QueryValues
  /\ langStored \in StoredValues
  /\ browserLang \in BrowserValues
  /\ \E storageThrows \in BOOLEAN :
       LET read == IF storageThrows THEN NullCode ELSE langStored IN
       /\ SUPPORTED = InitialSupported
       /\ DICT = InitialSupported
       /\ currentLang = NormalizeIn(InitialSupported,
                          LoadChoice(getLangFromQuery(query), read, browserLang))
       /\ i18nOp = I18nCall("load", NullCode, NullCode, NullCode, read)

\* the page is loaded again, with the same URL and browser language
LoadPage(storageThrows) ==
  /\ UNCHANGED <<query, browserLang, langStored>>
  /\ LoadModule(storageThrows)

\* saveToStorage is false only when the caller passes false; setItem may
\* throw, which saveLangToStorage catches
setLang(lang, saveToStorage, setItemThrows) ==
  LET next == normalizeLang(lang) IN
  /\ IF next = currentLang
       THEN UNCHANGED <<currentLang, langStored>>
       ELSE /\ currentLang' = next
            /\ langStored' = IF saveToStorage /\ ~setItemThrows
                               THEN next ELSE langStored
  /\ i18nOp' = I18nCall("setLang", lang, next, currentLang, NullCode)
  /\ UNCHANGED <<SUPPORTED, DICT, query, browserLang>>

addTranslations(lang) ==
  /\ IF lang \notin DICT
       THEN /\ DICT' = DICT \cup {lang}
            /\ SUPPORTED' = SUPPORTED \cup {lang}
       ELSE UNCHANGED <<DICT, SUPPORTED>>
  /\ i18nOp' = I18nCall("addTranslations", lang, NullCode, currentLang, NullCode)
  /\ UNCHANGED <<currentLang, query, langStored, browserLang>>

NextI18n ==
  \/ \E storageThrows \in BOOLEAN :
       LoadPage(storageThrows) /\ UNCHANGED otherThanI18n
  \/ \E lang \in Codes, saveToStorage \in BOOLEAN, setItemThrows \in BOOLEAN :
       setLang(lang, saveToStorage, setItemThrows) /\ UNCHANGED otherThanI18n
  \/ \E lang \in AddedLangs : addTranslations(lang) /\ UNCHANGED otherThanI18n

SpecI18n == InitI18n /\ [][NextI18n]_vars

\* ---------------------------------------------------------------------------
\* io.js
\* ---------------------------------------------------------------------------

\* The application's scripts have run: each of the scene functions is defined
\* or not, the page has the history module or not, and the registries are in
\* one of their states.
InitIO ==
  /\ scene \in Snapshots
  /\ snapshotAvail \in BOOLEAN
  /\ restoreAvail \in BOOLEAN
  /\ sceneAvail = FALSE
  /\ InitHistory
  /\ InitAutosaveIdle
  /\ InitClock
  /\ InitDebounce
  /\ InitLoaderState
  /\ InitUiIdle
  /\ InitPollIdle
  /\ download = NoDownload
  /\ loaderElement = TRUE
  /\ InitI18nIdle
  /\ \E r \in RegistriesAtStart :
       /\ customKinds = r
       /\ baseGeom = r
       /\ faceGeoms = r
  /\ loadAvail \in BOOLEAN
  /\ historyPresent \in BOOLEAN
  /\ ioOp = NoIoCall

\* snapshot = data if it is an array, data.snapshot if that is an array
SnapshotOf(file) ==
  IF file.kind \in {"array", "object"} THEN file.snapshot ELSE Null

\* customPayload = data.customKinds if data is an object that has one
CustomPayloadOf(file) == file.kind = "object" /\ file.custom

\* faulty variant: an empty snapshot array is taken as scene data
NoSceneData_NullOnly(snapshot) == snapshot.isNull

\* !snapshot || !snapshot.length
NoSceneData(snapshot) == snapshot.isNull \/ Len(snapshot.objs) = 0

\* restoreCustomKinds registers the kind: global.customKinds is created if
\* missing, baseGeom and faceGeoms are written only if they exist
RegisterIn(registry) == IF registry = "undefined" THEN registry ELSE "file"

importJSON(file, out) ==
  LET snapshot == SnapshotOf(file)
      hasScene == file.kind # "invalid" /\ ~NoSceneData(snapshot)
      customCalled == hasScene /\ CustomPayloadOf(file)
      restoreFn == IF loadAvail THEN "loadSceneFromSnapshot"
                   ELSE IF restoreAvail THEN "restoreScene"
                   ELSE "none"
      restoreCalled == hasScene /\ restoreFn # "none"
      restoreFailed == hasScene /\ (restoreFn = "none" \/ Throws(out.restore))
      resetCalled == hasScene /\ ~restoreFailed /\ historyPresent
      newScene == IF restoreCalled
                    THEN SceneAfterRestore(out.restore, snapshot)
                    ELSE scene
      res == ResetOf(Stacks, newScene, out.snapThrows)
      alert == IF file.kind = "invalid" THEN "Invalid JSON file"
               ELSE IF ~hasScene THEN "No scene data found in JSON"
               ELSE IF restoreFailed THEN "Failed to restore scene"
               ELSE "none"
      calls == (IF customCalled THEN <<"restoreCustomKinds">> ELSE <<>>)
                 \o (IF restoreCalled THEN <<restoreFn>> ELSE <<>>)
                 \o (IF resetCalled THEN <<"reset">> ELSE <<>>)
  IN
  \* the outcome of a call that is not made is not chosen
  /\ ~customCalled => ~out.customThrows
  /\ ~restoreCalled => out.restore = "ok"
  /\ ~(resetCalled /\ snapshotAvail) => ~out.snapThrows
  /\ scene' = newScene
  /\ IF customCalled /\ ~out.customThrows
       THEN /\ customKinds' = "file"
            /\ baseGeom' = RegisterIn(baseGeom)
            /\ faceGeoms' = RegisterIn(faceGeoms)
       ELSE UNCHANGED <<customKinds, baseGeom, faceGeoms>>
  /\ IF resetCalled
       THEN HistoryPush("reset", res, ResetOf(Stacks, newScene, FALSE), <<>>,
                        newScene)
       ELSE UNCHANGED histVars
  /\ ioOp' = IoCall("importJSON", file,
                    IF alert = "none" THEN "true" ELSE "false", alert, calls,
                    restoreCalled /\ Throws(out.restore),
                    resetCalled /\ res.captured,
                    [undo |-> undoStack, redo |-> redoStack,
                     customKinds |-> customKinds, baseGeom |-> baseGeom,
                     faceGeoms |-> faceGeoms])
  /\ UNCHANGED <<snapshotAvail, restoreAvail, sceneAvail, loadAvail,
                 historyPresent, autoVars, clockVars, debounceVars, loaderVars,
                 i18nVars, windowVars, uiVars, pollVars, download>>

\* the texts of the member names and values that exportJSON writes
KeyName == <<110, 97, 109, 101>>

KeyVersion == <<118, 101, 114, 115, 105, 111, 110>>

KeyTimestamp == <<116, 105, 109, 101, 115, 116, 97, 109, 112>>

KeySnapshot == <<115, 110, 97, 112, 115, 104, 111, 116>>

KeyCustomKinds == <<99, 117, 115, 116, 111, 109, 75, 105, 110, 100, 115>>

ProjectName == <<67, 117, 98, 105, 107, 32, 80, 114, 111, 106, 101, 99, 116>>

ProjectVersion == <<49, 46, 49>>

\* a string in JSON: the text between double quotes
Quote(s) == <<34>> \o s \o <<34>>

\* a member of an object: "key":value
Member(key, valueText) == Quote(key) \o <<58>> \o valueText

\* Date.now() as text; the clock stands at 0 while files are exported
TimestampText == <<48>>

\* the customKinds member of an export: one kind, with an object as value
CustomKindsText == <<123>> \o Member(<<107>>, <<123, 125>>) \o <<125>>

\* the text up to the value of the member snapshot
PayloadHead ==
  <<123>> \o Member(KeyName, Quote(ProjectName)) \o <<44>>
    \o Member(KeyVersion, Quote(ProjectVersion)) \o <<44>>
    \o Member(KeyTimestamp, TimestampText) \o <<44>>
    \o Quote(KeySnapshot) \o <<58>>

\* the text after that value, with the member customKinds or without it
PayloadTail(custom) ==
  (IF custom THEN <<44>> \o Member(KeyCustomKinds, CustomKindsText) ELSE <<>>)
    \o <<125>>

\* JSON.stringify(payload), white space apart
PayloadText(snapshot, custom) ==
  PayloadHead \o Stringify(snapshot) \o PayloadTail(custom)

StartsWith(text, prefix) ==
  Len(text) >= Len(prefix) /\ SubSeq(text, 1, Len(prefix)) = prefix

EndsWith(text, suffix) ==
  /\ Len(text) >= Len(suffix)
  /\ SubSeq(text, Len(text) - Len(suffix) + 1, Len(text)) = suffix

\* JSON.parse(text) as importJSON sees it: a top-level array, a project
\* object with its member snapshot (Null when that is not an array) and with
\* or without a member customKinds, some other value, or a syntax error
ParseFile(text) ==
  LET whole == ParseJSON(text)
      custom == EndsWith(text, PayloadTail(TRUE))
      tail == PayloadTail(custom)
      value == ParseJSON(SubSeq(text, Len(PayloadHead) + 1,
                                Len(text) - Len(tail)))
  IN  IF whole.ok
        THEN IF IsArray(whole.value) THEN File("array", whole.value, FALSE)
             ELSE File("scalar", Null, FALSE)
      ELSE IF /\ StartsWith(text, PayloadHead)
              /\ EndsWith(text, tail)
              /\ Len(text) >= Len(PayloadHead) + Len(tail)
              /\ value.ok
        THEN File("object", value.value, custom)
      ELSE File("invalid", Null, FALSE)

\* serializeCustomKinds(snapshot) is not null: the registry exists and holds
\* the custom kind that the objects of the snapshot use
SerializesCustomKinds(snapshot) ==
  /\ customKinds \in {"app", "file"}
  /\ IsArray(snapshot)
  /\ Len(snapshot.objs) > 0

\* exportJSON(): nothing is offered for download when snapshotScene is
\* missing or throws
exportJSON(snapThrows) ==
  /\ ~snapshotAvail => ~snapThrows
  /\ download' = IF snapshotAvail /\ ~snapThrows
                   THEN [text |-> PayloadText(scene,
                                              SerializesCustomKinds(scene)),
                         snapshot |-> scene]
                   ELSE download
  /\ ioOp' = [NoIoCall EXCEPT !.op = "exportJSON"]
  /\ UNCHANGED <<appVars, histVars, ioVars, autoVars, clockVars, debounceVars,
                 loaderVars, i18nVars, windowVars, uiVars, pollVars>>

\* the user picks the downloaded file for import
importDownloaded(out) ==
  /\ download.text # NoString
  /\ importJSON(ParseFile(download.text), out)

\* files are exported and the exported file is imported, the scene being
\* edited in between
NextRoundTrip ==
  \/ \E t \in BOOLEAN : exportJSON(t)
  \/ \E out \in IoOutcomes : importDownloaded(out)
  \/ \E s \in Snapshots :
       /\ EditScene(s)
       /\ ioOp' = NoIoCall
       /\ UNCHANGED <<ioVars, autoVars, restVars>>

SpecRoundTrip == InitIO /\ [][NextRoundTrip]_vars

\* the application and the user between two imports
NextIO ==
  \/ historyPresent /\ pushState(FALSE)
  \/ historyPresent /\ undo("ok")
  \/ \E file \in Files, out \in IoOutcomes : importJSON(file, out)

SpecIO == InitIO /\ [][NextIO]_vars

\* ---------------------------------------------------------------------------
\* autosave.js
\* ---------------------------------------------------------------------------

\* init(): pendingData = localStorage.getItem(STORAGE_KEY), null if it throws
InitAutosave ==
  /\ InitApp
  /\ InitHistory
  /\ localStorage \in InitialStorages
  /\ pendingData \in {localStorage.snap, NoString}
  /\ restored = FALSE
  /\ isDirty = FALSE
  /\ lastHash = NoHash
  /\ saveTimer = FALSE
  /\ autoOp = NoCall
  /\ autoPrev = Remembered(NoCall)
  /\ InitRestIdle

isReady == sceneAvail /\ snapshotAvail /\ restoreAvail

\* createSnapshot(): null when snapshotScene throws
createSnapshot(snapThrows) == IF snapThrows THEN NoString ELSE Stringify(scene)

\* faulty variant: the hash gate never matches
HashUnchanged_Never(h) == FALSE

\* if (h === lastHash)
HashUnchanged(h) == h = lastHash

\* faulty variant: isDirty is cleared before the writes are attempted
SaveResult_DirtyClearedFirst(snapThrows, outcome) ==
  LET snapshot == createSnapshot(snapThrows)
      h == hash(snapshot)
      same == [store |-> localStorage, lastHash |-> lastHash,
               isDirty |-> isDirty, calls |-> <<>>, threw |-> FALSE,
               ready |-> isReady, content |-> NoString]
  IN  IF ~isReady THEN same
      ELSE IF snapshot = NoString THEN same
      ELSE IF HashUnchanged(h)
        THEN [same EXCEPT !.isDirty = FALSE, !.content = snapshot]
      ELSE IF outcome = "firstThrows"
        THEN [same EXCEPT !.calls = <<"snap">>, !.threw = TRUE,
                          !.isDirty = FALSE, !.content = snapshot]
      ELSE IF outcome = "secondThrows"
        THEN [same EXCEPT !.store = [localStorage EXCEPT !.snap = snapshot],
                          !.calls = <<"snap", "meta">>, !.threw = TRUE,
                          !.isDirty = FALSE, !.content = snapshot]
      ELSE [same EXCEPT !.store = [snap |-> snapshot, meta |-> Meta(h)],
                        !.lastHash = h, !.isDirty = FALSE,
                        !.calls = <<"snap", "meta">>, !.content = snapshot]

\* save() in the current state
SaveResult(snapThrows, outcome) ==
  LET snapshot == createSnapshot(snapThrows)
      h == hash(snapshot)
      same == [store |-> localStorage, lastHash |-> lastHash,
               isDirty |-> isDirty, calls |-> <<>>, threw |-> FALSE,
               ready |-> isReady, content |-> NoString]
  IN  IF ~isReady THEN same
      ELSE IF snapshot = NoString THEN same
      ELSE IF HashUnchanged(h)
        THEN [same EXCEPT !.isDirty = FALSE, !.content = snapshot]
      ELSE IF outcome = "firstThrows"
        THEN [same EXCEPT !.calls = <<"snap">>, !.threw = TRUE,
                          !.content = snapshot]
      ELSE IF outcome = "secondThrows"
        THEN [same EXCEPT !.store = [localStorage EXCEPT !.snap = snapshot],
                          !.calls = <<"snap", "meta">>, !.threw = TRUE,
                          !.content = snapshot]
      ELSE [same EXCEPT !.store = [snap |-> snapshot, meta |-> Meta(h)],
                        !.lastHash = h, !.isDirty = FALSE,
                        !.calls = <<"snap", "meta">>, !.content = snapshot]

\* what a call of save() assigns
SaveAssigns(snapThrows, outcome) ==
  LET res == SaveResult(snapThrows, outcome) IN
  /\ localStorage' = res.store
  /\ lastHash' = res.lastHash
  /\ isDirty' = res.isDirty
  /\ autoOp' = [op |-> "save", ready |-> res.ready, content |-> res.content,
                calls |-> res.calls, threw |-> res.threw, ret |-> "undefined"]
  /\ UNCHANGED <<restored, pendingData, appVars>>

\* the effect of a call of save()
SaveEffect(snapThrows, outcome) ==
  /\ SaveAssigns(snapThrows, outcome)
  /\ autoPrev' = Remembered(autoOp)
  /\ UNCHANGED <<histVars, restVars, ioOp>>

\* CubikAutosave.save()
save(snapThrows, outcome) ==
  /\ SaveEffect(snapThrows, outcome)
  /\ UNCHANGED saveTimer

\* the timer set by the debounced scheduleSave fires and calls save()
SaveTimerFires(snapThrows, outcome) ==
  /\ saveTimer
  /\ saveTimer' = FALSE
  /\ SaveEffect(snapThrows, outcome)

\* scheduleSave(): clearTimeout(timer); timer = setTimeout(save, DEBOUNCE_MS)
scheduleSave ==
  /\ saveTimer' = TRUE
  /\ autoOp' = [NoCall EXCEPT !.op = "scheduleSave"]
  /\ autoPrev' = Remembered(autoOp)
  /\ UNCHANGED <<restored, pendingData, isDirty, lastHash, localStorage,
                 appVars, histVars, restVars, ioOp>>

markDirty ==
  /\ isDirty' = TRUE
  /\ saveTimer' = TRUE
  /\ autoOp' = [NoCall EXCEPT !.op = "markDirty"]
  /\ autoPrev' = Remembered(autoOp)
  /\ UNCHANGED <<restored, pendingData, lastHash, localStorage,
                 appVars, histVars, restVars, ioOp>>

\* faulty variant: an earlier restore is not remembered
NothingToRestore_IgnoringRestored == pendingData = NoString \/ ~isReady

\* if (restored || !pendingData || !isReady()) return false
NothingToRestore == restored \/ pendingData = NoString \/ ~isReady

\* tryRestore() in the current state
TryRestoreResult(outcome) ==
  LET same == [restored |-> restored, lastHash |-> lastHash,
               isDirty |-> isDirty, scene |-> scene, calls |-> <<>>,
               threw |-> FALSE, ret |-> "false"]
      parsed == ParseJSON(pendingData)
  IN  IF NothingToRestore THEN same
      ELSE IF ~parsed.ok THEN [same EXCEPT !.threw = TRUE]
      ELSE IF ~IsArray(parsed.value) THEN same
      ELSE IF Throws(outcome)
        THEN [same EXCEPT !.scene = SceneAfterRestore(outcome, parsed.value),
                          !.calls = <<parsed.value>>, !.threw = TRUE]
      ELSE [restored |-> TRUE, lastHash |-> hash(pendingData),
            isDirty |-> FALSE, scene |-> parsed.value,
            calls |-> <<parsed.value>>, threw |-> FALSE, ret |-> "true"]

\* what a call of tryRestore() assigns
TryRestoreAssigns(outcome) ==
  LET res == TryRestoreResult(outcome) IN
  /\ restored' = res.restored
  /\ lastHash' = res.lastHash
  /\ isDirty' = res.isDirty
  /\ scene' = res.scene
  /\ autoOp' = [op |-> "tryRestore", ready |-> isReady, content |-> NoString,
                calls |-> res.calls, threw |-> res.threw, ret |-> res.ret]
  /\ UNCHANGED <<pendingData, localStorage, snapshotAvail, restoreAvail,
                 sceneAvail>>

tryRestore(outcome) ==
  /\ TryRestoreAssigns(outcome)
  /\ autoPrev' = Remembered(autoOp)
  /\ UNCHANGED <<saveTimer, histVars, restVars, ioOp>>

\* the two removeItem calls of clear()
RemoveItems(outcome) ==
  IF outcome = "firstThrows" THEN localStorage
  ELSE IF outcome = "secondThrows" THEN [localStorage EXCEPT !.snap = NoString]
  ELSE EmptyStorage

\* what a call of clear() assigns
ClearAssigns(outcome) ==
  /\ localStorage' = RemoveItems(outcome)
  /\ pendingData' = NoString
  /\ lastHash' = NoHash
  /\ isDirty' = FALSE
  /\ autoOp' = [NoCall EXCEPT !.op = "clear", !.threw = (outcome # "ok")]
  /\ UNCHANGED <<restored, appVars>>

\* CubikAutosave.clear()
autosaveClear(outcome) ==
  /\ ClearAssigns(outcome)
  /\ autoPrev' = Remembered(autoOp)
  /\ UNCHANGED <<saveTimer, histVars, restVars, ioOp>>

\* The application creates window.scene and window.objects.
DefineScene ==
  /\ ~sceneAvail
  /\ sceneAvail' = TRUE
  /\ UNCHANGED <<scene, snapshotAvail, restoreAvail, histVars, autoVars, restVars, ioOp>>

\* The application defines window.snapshotScene and window.restoreScene.
DefineSceneFunctions ==
  /\ ~snapshotAvail \/ ~restoreAvail
  /\ snapshotAvail' = TRUE
  /\ restoreAvail' = TRUE
  /\ UNCHANGED <<scene, sceneAvail, histVars, autoVars, restVars, ioOp>>

\* The user edits the scene; the autosave is not called.
SceneEdited(s) ==
  /\ s # scene
  /\ scene' = s
  /\ UNCHANGED <<snapshotAvail, restoreAvail, sceneAvail, histVars, autoVars, restVars, ioOp>>

NextAutosave ==
  \/ DefineScene
  \/ DefineSceneFunctions
  \/ \E s \in Snapshots : SceneEdited(s)
  \/ \E t \in BOOLEAN, o \in StorageOutcomes : save(t, o)
  \/ \E t \in BOOLEAN, o \in StorageOutcomes : SaveTimerFires(t, o)
  \/ scheduleSave
  \/ markDirty
  \/ \E o \in RestoreOutcomes : tryRestore(o)
  \/ \E o \in StorageOutcomes : autosaveClear(o)

SpecAutosave == InitAutosave /\ [][NextAutosave]_vars

\* ---------------------------------------------------------------------------
\* autosave.js with its timers: the debounced save, the restore polling and
\* the periodic autosave that the handler of the load event starts
\* ---------------------------------------------------------------------------

\* autosave.js: var AUTO_SAVE_INTERVAL = 8000, here scaled down
AUTO_SAVE_INTERVAL == 800

\* autosave.js: var RESTORE_TIMEOUT = 10000, here scaled down
RESTORE_TIMEOUT == 700

\* the period of the restore polling: setInterval(..., 300)
POLL_MS == 300

\* where the polling is followed the clock runs up to PollMaxTime and the
\* load event comes by LoadBy; where the calls of the debounced save are
\* followed the clock runs up to SaveMaxTime
PollMaxTime == 1500

LoadBy == 100

SaveMaxTime == 600

\* the ids that setInterval returned for the two intervals
PollId == -1

AutosaveId == -2

\* with the timers, the call before the last is not observed
timedOther == <<autoPrev, histVars, loaderVars, i18nVars, ioVars, ioOp,
                windowVars, uiVars, download>>

\* setInterval(cb, period)
SetInterval(ts, id, cb, period) ==
  ts \cup {[id |-> id, due |-> now + period, cb |-> cb]}

\* an interval timer has fired and is due again one period later
Rearmed(t, period) == [t EXCEPT !.due = t.due + period]

\* window's load event: the polling and the periodic autosave are started
windowLoad ==
  /\ startTime = NotLoaded
  /\ now <= LoadBy
  /\ startTime' = now
  /\ timers' = SetInterval(SetInterval(timers, PollId, "poll", POLL_MS),
                           AutosaveId, "autosave", AUTO_SAVE_INTERVAL)
  /\ UNCHANGED <<now, pollOp, debounceVars, appVars, restored, pendingData,
                 isDirty, lastHash, saveTimer, localStorage, autoOp,
                 timedOther>>

\* faulty variant: the interval is cleared only by a successful restore
PollDone_OnlyOnSuccess(r, elapsed) == r = "true"

\* tryRestore() || (Date.now() - startTime > RESTORE_TIMEOUT)
PollDone(r, elapsed) == r = "true" \/ elapsed > RESTORE_TIMEOUT

\* a tick of the restore polling
RestorePollFires(t, outcome) ==
  LET r == TryRestoreResult(outcome).ret
      elapsed == now - startTime
      done == PollDone(r, elapsed)
  IN  /\ t \in timers
      /\ t.cb = "poll"
      /\ t.due <= now
      /\ TryRestoreAssigns(outcome)
      /\ timers' = (timers \ {t})
                      \cup (IF done THEN {} ELSE {Rearmed(t, POLL_MS)})
      /\ pollOp' = PollTick(pollOp.ticks + 1, r, elapsed, done)
      /\ UNCHANGED <<now, startTime, saveTimer, debounceVars, timedOther>>

\* what a call of scheduleSave() assigns besides the timer
ScheduleAssigns(op, dirty) ==
  /\ isDirty' = dirty
  /\ saveTimer' = TRUE
  /\ autoOp' = [NoCall EXCEPT !.op = op]
  /\ UNCHANGED <<restored, pendingData, lastHash, localStorage, appVars>>

\* a tick of the periodic autosave: scheduleSave()
AutosaveIntervalFires(t) ==
  /\ t \in timers
  /\ t.cb = "autosave"
  /\ t.due <= now
  /\ DebouncedCallIn((timers \ {t}) \cup {Rearmed(t, AUTO_SAVE_INTERVAL)},
                     DEBOUNCE_MS)
  /\ ScheduleAssigns("scheduleSave", isDirty)
  /\ UNCHANGED <<pollVars, timedOther>>

\* the timer of the debounced scheduleSave is due: save() runs
DebouncedSaveFires(t, snapThrows, outcome) ==
  /\ DebounceTimerFires(t)
  /\ SaveAssigns(snapThrows, outcome)
  /\ saveTimer' = FALSE
  /\ UNCHANGED <<pollVars, timedOther>>

\* calls are made while the timer they set is due within the time modelled
CallInTime == now + DEBOUNCE_MS <= SaveMaxTime

TimedScheduleSave ==
  /\ CallInTime
  /\ DebouncedCall(DEBOUNCE_MS)
  /\ ScheduleAssigns("scheduleSave", isDirty)
  /\ UNCHANGED <<pollVars, timedOther>>

TimedMarkDirty ==
  /\ CallInTime
  /\ DebouncedCall(DEBOUNCE_MS)
  /\ ScheduleAssigns("markDirty", TRUE)
  /\ UNCHANGED <<pollVars, timedOther>>

TimedTryRestore(outcome) ==
  /\ TryRestoreAssigns(outcome)
  /\ UNCHANGED <<saveTimer, clockVars, debounceVars, pollVars, timedOther>>

TimedClear(outcome) ==
  /\ ClearAssigns(outcome)
  /\ UNCHANGED <<saveTimer, clockVars, debounceVars, pollVars, timedOther>>

TimedTick(max) ==
  /\ TickBy(TickMs, max)
  /\ UNCHANGED <<timers, debounceVars, pollVars, appVars, restored,
                 pendingData, isDirty, lastHash, saveTimer, localStorage,
                 autoOp, timedOther>>

PollClockTick == TimedTick(PollMaxTime)

SaveClockTick == TimedTick(SaveMaxTime)

\* the timer of the debounced save is due and runs save()
SaveTimerDue ==
  \E t \in timers, s \in BOOLEAN, o \in StorageOutcomes :
     DebouncedSaveFires(t, s, o)

\* a timer that is due runs its callback
TimerFires ==
  \/ \E t \in timers, o \in RestoreOutcomes : RestorePollFires(t, o)
  \/ \E t \in timers : AutosaveIntervalFires(t)
  \/ SaveTimerDue

\* The page from the start of the module through the load event: the restore
\* polling and the periodic autosave, with calls of tryRestore() and clear()
\* by the application.
NextPoll ==
  \/ DefineScene
  \/ DefineSceneFunctions
  \/ windowLoad
  \/ TimerFires
  \/ \E o \in RestoreOutcomes : TimedTryRestore(o)
  \/ \E o \in StorageOutcomes : TimedClear(o)
  \/ PollClockTick

SpecPoll == InitAutosave /\ [][NextPoll]_vars

\* The browser lets time pass and runs the callback of every timer that is
\* due.
SpecPollFair == SpecPoll /\ WF_vars(PollClockTick) /\ WF_vars(TimerFires)

\* The calls of markDirty(), scheduleSave() and clear() at any moment, and the
\* debounced save they lead to; the ticks of the periodic autosave are
\* calls of scheduleSave() among these.
NextDebouncedSave ==
  \/ DefineScene
  \/ DefineSceneFunctions
  \/ TimedScheduleSave
  \/ TimedMarkDirty
  \/ \E o \in StorageOutcomes : TimedClear(o)
  \/ SaveTimerDue
  \/ SaveClockTick

SpecDebouncedSave == InitAutosave /\ [][NextDebouncedSave]_vars

SpecDebouncedSaveFair ==
  SpecDebouncedSave /\ WF_vars(SaveClockTick) /\ WF_vars(SaveTimerDue)

\* getters of the public API
canUndo == Len(undoStack) > 1

canRedo == Len(redoStack) > 0

getUndoCount == Len(undoStack)

getRedoCount == Len(redoStack)

\* ---------------------------------------------------------------------------
\* Properties of the history
\* ---------------------------------------------------------------------------

Range(s) == {s[i] : i \in 1..Len(s)}

LastN(s, n) == SubSeq(s, Len(s) - n + 1, Len(s))

\* C1: after a run of more than MAX_UNDO_STEPS pushState() calls that each
\* captured a snapshot (no undo, redo, clear or reset in between), the undo
\* stack holds exactly MAX_UNDO_STEPS entries, and they are the most recent
\* MAX_UNDO_STEPS captured snapshots in push order.
C1_PushRunKeepsMostRecent ==
  Len(pushLog) > MAX_UNDO_STEPS =>
    /\ Len(undoStack) = MAX_UNDO_STEPS
    /\ undoStack = LastN(pushLog, MAX_UNDO_STEPS)

\* a run of pushes in which the oldest pushed snapshot is visibly gone
C1_Witness ==
  /\ lastOp = "pushState"
  /\ Len(pushLog) > MAX_UNDO_STEPS
  /\ pushLog[1] \notin Range(undoStack)

\* C2 as stated: after every pushState() call, whatever the state it was
\* made in, the redo stack is empty.
C2_EveryPushClearsRedo == lastOp = "pushState" => redoStack = <<>>

\* C2 amended: a pushState() call in which snapshotScene returned a snapshot
\* leaves the redo stack empty; a call in which snapshotScene is missing or
\* throws leaves both stacks as they were.
C2_CapturingPushClearsRedo ==
  lastOp = "pushState" =>
    IF snapshotAvail /\ ~callbackThrew
      THEN redoStack = <<>>
      ELSE redoStack = pre.redo /\ undoStack = pre.undo

\* a push that captured a snapshot while the redo stack was not empty
C2_Witness ==
  /\ lastOp = "pushState"
  /\ ~callbackThrew
  /\ pre.redo # <<>>
  /\ redoStack = <<>>
  /\ undoStack # pre.undo

\* C3 as stated: when undo() returned true and redo() is the next call,
\* redo() returns true, both stacks are as before the undo and restoreScene
\* was last handed the snapshot that was on top of the undo stack.
C3_UndoThenRedoReturnsTrue ==
  [][(lastOp = "undo" /\ ret = "true" /\ lastOp' = "redo") =>
       /\ ret' = "true"
       /\ undoStack' = pre.undo
       /\ redoStack' = pre.redo
       /\ restoreCalls' = <<Last(pre.undo)>>]_vars

\* C3 amended: when undo() returned true and redo() is the next call, both
\* stacks are as before the undo and restoreScene was last handed the former
\* top of the undo stack; redo() returns true unless that restoreScene call
\* throws, in which case it returns false.
C3_UndoThenRedoRestoresStacks ==
  [][(lastOp = "undo" /\ ret = "true" /\ lastOp' = "redo") =>
       /\ ret' = (IF callbackThrew' THEN "false" ELSE "true")
       /\ undoStack' = pre.undo
       /\ redoStack' = pre.redo
       /\ restoreCalls' = <<Last(pre.undo)>>]_vars

\* a redo() that returned true right after an undo() that returned true
C3_Witness ==
  /\ lastOp = "redo"
  /\ prev = [op |-> "undo", ret |-> "true"]
  /\ ret = "true"
  /\ Len(undoStack) >= 2
  /\ restoreCalls = <<Last(undoStack)>>

\* C4: undo() on an undo stack of at most one entry returns false, leaves
\* both stacks and the unsaved-changes flag unchanged and does not call
\* restoreScene; and no undo() removes the bottom entry of a non-empty stack.
C4_UndoKeepsBaseline ==
  lastOp = "undo" =>
    /\ Len(pre.undo) <= 1 =>
         /\ ret = "false"
         /\ undoStack = pre.undo
         /\ redoStack = pre.redo
         /\ hasUnsavedChanges = pre.dirty
         /\ restoreCalls = <<>>
    /\ Len(pre.undo) >= 1 =>
         /\ Len(undoStack) >= 1
         /\ undoStack[1] = pre.undo[1]

\* an undo() refused only because a single (baseline) entry is left
C4_Witness ==
  /\ lastOp = "undo"
  /\ restoreAvail
  /\ Len(pre.undo) = 1
  /\ pre.redo # <<>>
  /\ ret = "false"

\* C5 as stated: whenever undo() returns true, the former top of the undo
\* stack is on top of the redo stack and restoreScene was called exactly once,
\* with the new top of the undo stack, whatever the snapshot values are.
C5_UndoRestoresNewTop ==
  (lastOp = "undo" /\ ret = "true") =>
    /\ undoStack = Front(pre.undo)
    /\ redoStack = Append(pre.redo, Last(pre.undo))
    /\ restoreCalls = <<Last(undoStack)>>

\* C6 as stated: redo() on an empty redo stack is a no-op returning false;
\* otherwise it pops the redo stack, appends the snapshot to the undo stack,
\* hands it to restoreScene and returns true.
C6_RedoReturnsTrue ==
  lastOp = "redo" =>
    IF pre.redo = <<>>
      THEN /\ ret = "false"
           /\ undoStack = pre.undo
           /\ redoStack = pre.redo
           /\ restoreCalls = <<>>
      ELSE /\ redoStack = Front(pre.redo)
           /\ undoStack = Append(pre.undo, Last(pre.redo))
           /\ restoreCalls = <<Last(pre.redo)>>
           /\ ret = "true"

\* C6 amended: redo() on an empty redo stack (or with no restoreScene
\* function) is a no-op returning false; otherwise it pops the redo stack,
\* appends the snapshot to the undo stack and hands it to restoreScene, and
\* returns true unless restoreScene throws, in which case it returns false.
C6_RedoPopsAndReapplies ==
  lastOp = "redo" =>
    IF pre.redo = <<>> \/ ~restoreAvail
      THEN /\ ret = "false"
           /\ undoStack = pre.undo
           /\ redoStack = pre.redo
           /\ restoreCalls = <<>>
      ELSE /\ redoStack = Front(pre.redo)
           /\ undoStack = Append(pre.undo, Last(pre.redo))
           /\ restoreCalls = <<Last(pre.redo)>>
           /\ ret = (IF callbackThrew THEN "false" ELSE "true")

\* a redo() that moved one of several redo entries back and returned true
C6_Witness ==
  /\ lastOp = "redo"
  /\ Len(pre.redo) >= 2
  /\ ret = "true"
  /\ scene = Last(undoStack)

\* C7 as stated: after reset(), from any prior state, the redo stack is empty
\* and the undo stack is exactly the snapshot of the current scene, so that
\* neither undo nor redo is possible.
C7_ResetLeavesBaseline ==
  lastOp = "reset" =>
    /\ redoStack = <<>>
    /\ undoStack = <<scene>>
    /\ ~canUndo
    /\ ~canRedo

\* C7 amended: after reset() the redo stack is empty and neither undo nor
\* redo is possible; the undo stack is exactly the snapshot of the current
\* scene when snapshotScene is available and returns, and is empty when
\* snapshotScene is missing or throws.
C7_ResetLeavesBaselineOrEmpty ==
  lastOp = "reset" =>
    /\ redoStack = <<>>
    /\ undoStack = (IF snapshotAvail /\ ~callbackThrew THEN <<scene>> ELSE <<>>)
    /\ ~canUndo
    /\ ~canRedo

\* a reset() that replaced a longer history, redo entries included
C7_Witness ==
  /\ lastOp = "reset"
  /\ Len(pre.undo) >= 2
  /\ pre.redo # <<>>
  /\ undoStack = <<scene>>
  /\ scene # Last(pre.undo)

\* C8 as stated: when the external callback throws during pushState(), undo()
\* or redo(), nothing propagates to the caller and the value returned differs
\* from the value the call returns on success.
C8_FailureIsDistinguished ==
  callbackThrew => (~raised /\ ret # retIfOk)

\* C8 amended: when the external callback throws, nothing propagates to the
\* caller; undo() and redo() return false where they return true on success;
\* pushState() (and reset()) return undefined whether or not snapshotScene
\* threw, so their return value does not tell the failure.
C8_FailureIsCaught ==
  callbackThrew =>
    /\ ~raised
    /\ lastOp \in {"undo", "redo"} => (ret = "false" /\ retIfOk = "true")
    /\ lastOp \in {"pushState", "reset"} =>
         (ret = "undefined" /\ retIfOk = "undefined")

\* a restoreScene failure inside redo()
C8_Witness ==
  /\ callbackThrew
  /\ lastOp = "redo"
  /\ ret = "false"

\* C9 as stated: when restoreScene throws during undo() or redo(), both
\* stacks are as they were before the failed call.
C9_FailedRestoreKeepsStacks ==
  (callbackThrew /\ lastOp \in {"undo", "redo"}) =>
    /\ undoStack = pre.undo
    /\ redoStack = pre.redo

\* ---------------------------------------------------------------------------
\* Properties of the autosave
\* ---------------------------------------------------------------------------

\* two consecutive save() calls, the scene ready and snapshotScene returning
\* the same content both times
TwoSavesOfSameContent ==
  /\ autoOp.op = "save"
  /\ autoPrev.op = "save"
  /\ autoOp.ready
  /\ autoPrev.ready
  /\ autoOp.content # NoString
  /\ autoOp.content = autoPrev.content

\* C10 as stated: the second of two consecutive save() calls with identical
\* content calls localStorage.setItem on neither key.
C10_SecondSaveNeverWrites ==
  TwoSavesOfSameContent => autoOp.calls = <<>>

\* C10 amended: the second of two consecutive save() calls with identical
\* content calls localStorage.setItem on neither key, provided no setItem
\* call threw during the first; when one threw, lastHash was not recorded and
\* the second save() attempts the write again.
C10_SecondSaveWritesOnlyAfterFailure ==
  TwoSavesOfSameContent =>
    IF autoPrev.threw THEN autoOp.calls # <<>> ELSE autoOp.calls = <<>>

\* a save() that wrote both items, followed by a save() of the same content
C10_Witness ==
  /\ TwoSavesOfSameContent
  /\ autoPrev.wrote
  /\ ~autoPrev.threw
  /\ autoOp.calls = <<>>
  /\ localStorage.snap = autoOp.content
  /\ localStorage.meta = Meta(lastHash)


\* C11 as stated: whenever both autosave items exist in localStorage, the
\* hash recorded in the metadata item is the hash of the stored snapshot
\* string, also after a setItem call has thrown.
C11_MetaHashMatchesSnapshot ==
  (localStorage.snap # NoString /\ localStorage.meta.present) =>
    localStorage.meta.hash = hash(localStorage.snap)

\* a save() that did not persist: scene not ready, no snapshot, or a setItem
\* call threw
SaveDidNotPersist(call) ==
  /\ call.op = "save"
  /\ \/ ~call.ready
     \/ call.content = NoString
     \/ call.threw

\* a save() that wrote both items, or found the content hash unchanged
SavePersistedOrUnchanged(call, h) ==
  /\ call.op = "save"
  /\ call.ready
  /\ call.content # NoString
  /\ ~call.threw
  /\ \/ call.calls = <<"snap", "meta">>
     \/ call.calls = <<>> /\ hash(call.content) = h

\* C12: isDirty is true after markDirty(), is left as it was by every save()
\* that does not persist, and goes from true to false only through a save()
\* that wrote storage or found the content hash unchanged, a tryRestore()
\* that returned true, or clear().
C12_DirtyUntilPersisted ==
  /\ [](autoOp.op = "markDirty" => isDirty)
  /\ [][/\ SaveDidNotPersist(autoOp') => isDirty' = isDirty
        /\ (isDirty /\ ~isDirty') =>
             \/ SavePersistedOrUnchanged(autoOp', lastHash)
             \/ autoOp'.op = "tryRestore" /\ autoOp'.ret = "true"
             \/ autoOp'.op = "clear"]_vars

\* a save() after markDirty() in which setItem threw, the flag still set
C12_Witness ==
  /\ autoOp.op = "save"
  /\ autoOp.threw
  /\ autoPrev.op = "markDirty"
  /\ isDirty


\* ---------------------------------------------------------------------------
\* Properties of debounce
\* ---------------------------------------------------------------------------

\* C13: a debounced function has at most one timer pending at any time, and
\* after the last call of a burst the wrapped function runs exactly once,
\* one delay after that call: it has not run before, it has run once time
\* has passed that moment, and it does not run again.
C13_DebounceRunsOncePerBurst ==
  /\ Cardinality(timers) <= 1
  /\ firesSinceCall <= 1
  /\ firesSinceCall = 1 => (invokedAt = lastCall + DEBOUNCE_MS /\ timers = {})
  /\ (lastCall >= 0 /\ firesSinceCall = 0) =>
       (\E t \in timers : t.due = lastCall + DEBOUNCE_MS /\ now <= t.due)
  /\ (lastCall >= 0 /\ now > lastCall + DEBOUNCE_MS) => firesSinceCall = 1

\* a burst of several calls, after which the wrapped function has run once
C13_Witness ==
  /\ burstCalls >= 2
  /\ firesSinceCall = 1
  /\ invokedAt = lastCall + DEBOUNCE_MS
  /\ now > invokedAt
  /\ timers = {}


\* ---------------------------------------------------------------------------
\* Properties of the loader
\* ---------------------------------------------------------------------------

\* C14: when show() started the startup phase at loaderStartTime and neither
\* hide() nor hideImmediate() has been called, the loader does not become
\* hidden before loaderStartTime + MIN_STARTUP_DURATION, and, once
\* hideWithMinDuration() has been called, it is hidden after that time.
C14_LoaderShownForMinDuration ==
  /\ [][(~usedPlainHide' /\ display = "flex" /\ display' = "none") =>
          now' >= loaderStartTime + MIN_STARTUP_DURATION]_vars
  /\ []((~usedPlainHide /\ hideRequested /\ display = "flex") =>
          now <= loaderStartTime + MIN_STARTUP_DURATION)


\* ---------------------------------------------------------------------------
\* Properties of i18n
\* ---------------------------------------------------------------------------

\* C15: for every code whose normalized form is not in the supported list,
\* and from every current language, setLang(code) leaves the current language
\* equal to 'en' and returns 'en'.
C15_UnsupportedFallsBackToDefault ==
  (i18nOp.op = "setLang" /\ NormalForm(i18nOp.arg) \notin SUPPORTED) =>
    (currentLang = <<"e", "n">> /\ i18nOp.ret = <<"e", "n">>)

\* setLang was given an unsupported code while the language was not 'en'
C15_Witness ==
  /\ i18nOp.op = "setLang"
  /\ i18nOp.arg = <<"d", "e", "-", "D", "E">>
  /\ NormalForm(i18nOp.arg) \notin SUPPORTED
  /\ i18nOp.before = RU
  /\ currentLang = DEFAULT_LANG


\* the first of the three sources that is neither absent nor empty, else 'en'
FirstPresent(q, s, b) ==
  IF q # NullCode /\ q # <<>> THEN q
  ELSE IF s # NullCode /\ s # <<>> THEN s
  ELSE IF b # NullCode /\ b # <<>> THEN b
  ELSE <<"e", "n">>

\* the module has just been loaded and the language is the normalized value
\* of the first present source, the URL's value being q
LoadedByPriority(q) ==
  i18nOp.op = "load" =>
    /\ currentLang \in SUPPORTED
    /\ currentLang = normalizeLang(FirstPresent(q, i18nOp.read, browserLang))

\* C18 as stated: at module load the language is the normalized value of the
\* URL parameter lang when it is present and not empty, else of the stored
\* entry 'cubik_lang' when that is, else of the browser language when that
\* is, else 'en'.
C18_UrlParameterFirst == LoadedByPriority(query)

\* C18 amended: the same, where the URL parameter counts only by its leading
\* run of letters and hyphens, and is absent when that run is empty.
C18_MatchedUrlParameterFirst == LoadedByPriority(getLangFromQuery(query))

\* a load where the URL and the stored entry are empty and the browser decides
C18_Witness ==
  /\ i18nOp.op = "load"
  /\ query = <<>>
  /\ i18nOp.read = <<>>
  /\ browserLang = <<"r", "u", "-", "R", "U">>
  /\ currentLang = RU


\* ---------------------------------------------------------------------------
\* Properties of importJSON
\* ---------------------------------------------------------------------------

\* C16: if the scene-restore function throws during importJSON, importJSON
\* returns false without throwing, and the history stacks and the registries
\* customKinds, baseGeom and faceGeoms are as they were before the call.
C16_FailedImportChangesNothing ==
  (ioOp.op = "importJSON" /\ ioOp.restoreThrew) =>
    /\ ioOp.ret = "false"
    /\ undoStack = ioOp.pre.undo
    /\ redoStack = ioOp.pre.redo
    /\ customKinds = ioOp.pre.customKinds
    /\ baseGeom = ioOp.pre.baseGeom
    /\ faceGeoms = ioOp.pre.faceGeoms


\* the parsed value is a non-empty top-level array or an object whose member
\* snapshot is a non-empty array
HoldsNonEmptySnapshot(file) ==
  /\ file.kind \in {"array", "object"}
  /\ ~file.snapshot.isNull
  /\ Len(file.snapshot.objs) > 0

\* C17: importJSON on text that is not valid JSON, or whose parsed value
\* holds no non-empty snapshot array, shows an alert, returns false, calls
\* neither restoreCustomKinds nor a scene-restore function nor
\* CubikHistory.reset, and leaves stacks and registries as they were.
C17_ImportErrorsChangeNothing ==
  (ioOp.op = "importJSON" /\ ~HoldsNonEmptySnapshot(ioOp.file)) =>
    /\ ioOp.alert # "none"
    /\ ioOp.ret = "false"
    /\ ioOp.calls = <<>>
    /\ undoStack = ioOp.pre.undo
    /\ redoStack = ioOp.pre.redo
    /\ customKinds = ioOp.pre.customKinds
    /\ baseGeom = ioOp.pre.baseGeom
    /\ faceGeoms = ioOp.pre.faceGeoms

\* a file with custom kinds and an empty snapshot array, imported while the
\* history holds several states
C17_Witness ==
  /\ ioOp.op = "importJSON"
  /\ ioOp.file = File("object", ArrayOf(0), TRUE)
  /\ ioOp.alert = "No scene data found in JSON"
  /\ Len(undoStack) >= 2
  /\ loadAvail

C20_WindowFlagTracksModule == windowHasUnsavedChanges = hasUnsavedChanges


\* ---------------------------------------------------------------------------
\* Further properties of the history
\* ---------------------------------------------------------------------------

\* C22: in every state reachable by pushState, undo, redo, clear and reset,
\* the entries of the undo stack and of the redo stack together number at
\* most MAX_UNDO_STEPS; in particular the undo stack never exceeds the
\* capacity, also after redo().
C22_StacksTogetherWithinCapacity ==
  /\ Len(undoStack) + Len(redoStack) <= MAX_UNDO_STEPS
  /\ Len(undoStack) <= MAX_UNDO_STEPS

\* a redo() that has filled the undo stack to its capacity
C22_Witness ==
  /\ lastOp = "redo"
  /\ ret = "true"
  /\ Len(pre.redo) > 0
  /\ Len(undoStack) = MAX_UNDO_STEPS


\* ---------------------------------------------------------------------------
\* Further properties of the autosave
\* ---------------------------------------------------------------------------

\* C23: in every state reachable by save(), tryRestore(), clear() and
\* markDirty(), whenever lastHash is set the snapshot entry stored in
\* localStorage hashes to lastHash.
C23_LastHashIsHashOfStored ==
  lastHash # NoHash =>
    (localStorage.snap # NoString /\ hash(localStorage.snap) = lastHash)

\* ---------------------------------------------------------------------------
\* Properties of the UI module
\* ---------------------------------------------------------------------------

\* the panel that Escape is to close: the open one of highest priority
FirstOpen(cl) ==
  IF HELP \in cl THEN {HELP}
  ELSE IF NAV \in cl THEN {NAV}
  ELSE IF EDITOR \in cl THEN {EDITOR}
  ELSE {}

\* C21: a press of Escape closes at most one panel, the open one that comes
\* first in the order help, navigation, editor; every other panel stays as
\* it was, and with no panel open nothing changes.
C21_EscapeClosesFirstOpenPanel ==
  (uiOp.op = "handleKeyboard" /\ uiOp.e.key = "Escape") =>
     /\ classList = uiOp.before \ FirstOpen(uiOp.before)
     /\ Cardinality(uiOp.before \ classList) <= 1
     /\ classList \subseteq uiOp.before
     /\ (uiOp.before \cap PanelClasses = {} => classList = uiOp.before)

C21_Witness ==
  /\ uiOp.op = "handleKeyboard"
  /\ uiOp.e.key = "Escape"
  /\ uiOp.before = {NAV, EDITOR}
  /\ classList = {EDITOR}

\* C24: after clear() the autosave entries stay absent until a later
\* markDirty(), scheduleSave() or save(): when clear() was the last call and
\* has removed both entries, the firing of the timer that a debounced save
\* had set before it does not create them again.
C24_ClearedStaysClearedWhenTimerFires ==
  [][(/\ autoOp.op = "clear"
      /\ localStorage = EmptyStorage
      /\ saveTimer /\ ~saveTimer')
       => localStorage' = EmptyStorage]_vars

\* a step that is a call of tryRestore()
TryRestoreStep ==
  /\ autoOp'.op = "tryRestore"
  /\ <<autoOp, autoPrev>>' # <<autoOp, autoPrev>>

\* C27: restored is set by a tryRestore() that returns true and by nothing
\* else, and is never reset.  Once it is set, every later tryRestore()
\* returns false without calling restoreScene and without changing lastHash
\* or isDirty; and a tryRestore() that returns false leaves restored,
\* lastHash and isDirty as they were.
C27_RestoreHappensAtMostOnce ==
  [][/\ restored => restored'
     /\ (~restored /\ restored') =>
           (autoOp'.op = "tryRestore" /\ autoOp'.ret = "true")
     /\ TryRestoreStep =>
           /\ (autoOp'.ret = "true") = (~restored /\ restored')
           /\ restored =>
                 /\ autoOp'.ret = "false"
                 /\ autoOp'.calls = <<>>
                 /\ UNCHANGED <<lastHash, isDirty, scene>>
           /\ autoOp'.ret = "false" =>
                 UNCHANGED <<restored, lastHash, isDirty>>]_vars

\* a tryRestore() after a successful one, with data pending and the scene
\* ready, and with lastHash changed by a save() in between
C27_Witness ==
  /\ restored
  /\ autoOp.op = "tryRestore"
  /\ autoOp.ret = "false"
  /\ autoOp.ready
  /\ pendingData # NoString
  /\ lastHash # NoHash
  /\ lastHash # hash(pendingData)

\* ---------------------------------------------------------------------------
\* Further properties of the loader
\* ---------------------------------------------------------------------------

\* C25: a loader made visible by show() stays visible until hide(),
\* hideImmediate() or hideWithMinDuration() is called after that show(): as
\* long as none of them has been called since the last show() the element is
\* displayed, whatever timers were pending when it was shown.
C25_ShownUntilHideIsCalled ==
  ~hideSinceShow => display = "flex"

\* ---------------------------------------------------------------------------
\* Properties of the restore polling
\* ---------------------------------------------------------------------------

\* the interval of the restore polling is set and has not been cleared
PollPending == \E t \in timers : t.cb = "poll"

\* C28: the restore polling started by the load event always terminates.
\* The interval is cleared at the first tick at which tryRestore() returns
\* true or more than RESTORE_TIMEOUT ms have passed since the load event, and
\* at no other tick; no tick polls tryRestore() after that one; and once the
\* load event has been handled such a tick comes.
C28_PollingTerminates ==
  /\ [](/\ pollOp.cleared =
              (/\ pollOp.ticks > 0
               /\ (pollOp.ret = "true" \/ pollOp.elapsed > RESTORE_TIMEOUT))
        /\ PollPending = (startTime # NotLoaded /\ ~pollOp.cleared))
  /\ [][pollOp' # pollOp =>
          /\ ~pollOp.cleared
          /\ PollPending
          /\ autoOp'.op = "tryRestore"
          /\ autoOp'.ret = pollOp'.ret
          /\ pollOp'.elapsed = now - startTime]_vars
  /\ (startTime # NotLoaded) ~> pollOp.cleared

\* the polling ended by the timeout, after ticks that did not end it
C28_Witness ==
  /\ pollOp.cleared
  /\ pollOp.ret = "false"
  /\ pollOp.elapsed > RESTORE_TIMEOUT
  /\ pollOp.ticks > 2
  /\ ~PollPending

\* ---------------------------------------------------------------------------
\* Properties of the debounced save
\* ---------------------------------------------------------------------------

\* the timers of the debounced save that are pending
SaveTimers == {t \in timers : t.cb = "debounced"}

\* the debounced save has run, one delay after the last call
SavedAfterLastCall ==
  /\ firesSinceCall = 1
  /\ invokedAt = lastCall + DEBOUNCE_MS
  /\ autoOp.op = "save"

\* C26: every markDirty() (and every scheduleSave()) is eventually followed
\* by a save(): the calls having stopped, save() runs exactly once,
\* DEBOUNCE_MS after the last of them and not before, and when that save()
\* finds the scene ready, gets its snapshot and is not refused by storage,
\* isDirty is false afterwards.
C26_DirtyIsEventuallySaved ==
  /\ [](/\ Cardinality(SaveTimers) <= 1
        /\ firesSinceCall <= 1
        /\ firesSinceCall = 1 =>
              (invokedAt = lastCall + DEBOUNCE_MS /\ SaveTimers = {})
        /\ (lastCall >= 0 /\ firesSinceCall = 0) =>
              (\E t \in SaveTimers :
                  t.due = lastCall + DEBOUNCE_MS /\ now <= t.due))
  /\ [][firesSinceCall' = firesSinceCall + 1 =>
          /\ autoOp'.op = "save"
          /\ now = lastCall + DEBOUNCE_MS
          /\ (autoOp'.ready /\ autoOp'.content # NoString /\ ~autoOp'.threw)
                => ~isDirty']_vars
  /\ (autoOp.op \in {"markDirty", "scheduleSave"}) ~> SavedAfterLastCall

\* after a burst of calls that set isDirty, the one save() has written the
\* snapshot and cleared the flag
C26_Witness ==
  /\ SavedAfterLastCall
  /\ burstCalls >= 2
  /\ autoOp.calls = <<"snap", "meta">>
  /\ ~autoOp.threw
  /\ ~isDirty
  /\ now > invokedAt

\* ---------------------------------------------------------------------------
\* Properties of export and import together
\* ---------------------------------------------------------------------------

\* the last call imported the text that exportJSON built, and the scene
\* restore function was there and did not throw
ImportedTheExport ==
  /\ ioOp.op = "importJSON"
  /\ download.text # NoString
  /\ ioOp.file = ParseFile(download.text)
  /\ loadAvail \/ restoreAvail
  /\ ~ioOp.restoreThrew

\* C29: for every snapshot array that snapshotScene returned, the array of
\* an empty scene included, importJSON applied to the text that exportJSON
\* built returns true and hands the scene restore function a snapshot equal
\* to the exported one.
C29_ExportImportRoundTrip ==
  (ImportedTheExport /\ IsArray(download.snapshot)) =>
     /\ ioOp.ret = "true"
     /\ \E i \in 1..Len(ioOp.calls) :
           ioOp.calls[i] \in {"loadSceneFromSnapshot", "restoreScene"}
     /\ SnapshotOf(ioOp.file) = download.snapshot

====
